---- MODULE Spec2Model ----
(***************************************************************************)
(* A model of rnleach/fwxcharts: the containers of src/src/timeseries.rs   *)
(* (EnsembleList, EnsembleSeries, MergedSeries and their transforms), the  *)
(* merge of an ensemble of model runs, the loaders of src/src/sources.rs   *)
(* and the driver of src/src/plot.rs.                                      *)
(*                                                                         *)
(* An Option<T> is a sequence of length at most one: None is << >> and     *)
(* Some(x) is << x >>.  A Vec<T> is a sequence.  A HashMap<K, V> is a      *)
(* function whose DOMAIN is the set of its keys.                           *)
(***************************************************************************)
EXTENDS Integers, Sequences, FiniteSets, TLC

VARIABLES
    scenario,   \* which part of the program this behaviour runs
    ens,        \* merge: the EnsembleSeries handed to the transform
    pool,       \* merge: HashMap<NaiveDateTime, T>
    pos,        \* merge: number of elements of the flattened input consumed
    mpc,        \* merge: where the call is
    kept,       \* the values the func under test maps to Some
    result,     \* the value the transform returned
    derived,    \* the value MergedSeries::filter_map returned for the merged result
    loader,     \* loaders: which loader was called, with its arguments
    lpc,        \* loaders: where the spawned thread is
    locals,     \* loaders: the spawned thread's local variables
    calls,      \* loaders: the file and archive calls made, with their answers
    sent,       \* loaders: the messages handed to sender.send, in order
    chan,       \* the unbounded channel's queue
    rx,         \* the Receiver the loader returned: held, finished or dropped
    recvd,      \* the messages the holder of the Receiver took from it
    driver,     \* driver: plot_all or save_all
    dpc,        \* driver: where the call is
    cur,        \* driver: the item in the iterator chain and what was made of it
    trail,      \* driver: per item taken, the stages it went through
    reported,   \* driver: the items whose error was reported
    out         \* driver: the writes to gnuplot's stdin or to the files, in order

mergeVars == <<ens, pool, pos, mpc, kept, result, derived>>
loadVars == <<loader, lpc, locals, calls, sent, chan, rx, recvd>>
pipeVars == <<driver, dpc, cur, trail, reported, out>>
vars == <<scenario, mergeVars, loadVars, pipeVars>>

\* ------------------------------------------------------------------ bounds

\* Runs in an EnsembleSeries under test.
MaxRuns == 2
\* Elements in an EnsembleSeries under test, over all its runs.
MaxElems == 3

\* Valid times and lead times (hours) the elements under test carry.
ValidTimes == {1, 2}
LeadTimes == {0, 1}

\* ------------------------------------------------------------------ Option

None == << >>
Some(x) == << x >>
IsSome(o) == o # None
Unwrap(o) == o[1]

\* Ord for Option<K>: None sorts before every Some, Somes by their content.
OptLE(a, b) == \/ a = None
               \/ IsSome(b) /\ Unwrap(a) <= Unwrap(b)
OptLT(a, b) == OptLE(a, b) /\ a # b

\* ------------------------------------------------------------------ helpers

Range(s) == {s[i] : i \in DOMAIN s}

RECURSIVE SumSeq(_)
SumSeq(s) == IF s = << >> THEN 0 ELSE Head(s) + SumSeq(Tail(s))

RECURSIVE Concat(_)
Concat(ss) == IF ss = << >> THEN << >> ELSE Head(ss) \o Concat(Tail(ss))

\* Iterator::filter_map over a slice: f (a function value) yields an Option,
\* Nones are skipped, the Somes are unwrapped and collected in iteration order.
IterFilterMap(s, f) == Concat([i \in 1..Len(s) |-> f[s[i]]])

\* ------------------------------------------------------------------ data

\* MetaData { site, model, start, now, end }
MetaData(site, model, start, now, end) ==
    [site |-> site, model |-> model, start |-> start, now |-> now, end |-> end]

\* The ModelTimes / ValidTime accessors of an element.
valid_time(e) == e.valid_time
lead_time(e) == e.lead_time

\* TimeSeries { data }, EnsembleList { meta, data }, MergedSeries { meta, data }
TimeSeries(v) == [data |-> v]
EnsembleList(m, d) == [meta |-> m, data |-> d]
MergedSeries(m, ts) == [meta |-> m, data |-> ts]

\* ------------------------------------------------------------------ transforms

\* filter_map that pairs the surviving results with the init times of the
\* first runs instead of their own.
filter_map_zipped(self, func) ==
    LET us == IterFilterMap([i \in 1..Len(self.data) |-> self.data[i][2]], func)
    IN  EnsembleList(self.meta, [i \in 1..Len(us) |-> <<self.data[i][1], us[i]>>])

\* EnsembleList::filter_map; func is a function value, T -> Option<U>.
filter_map(self, func) ==
    LET Pairs == Range(self.data)
        one == [pair \in Pairs |->
                   LET u == func[pair[2]]
                   IN  IF IsSome(u) THEN Some(<<pair[1], Unwrap(u)>>) ELSE None]
    IN  EnsembleList(self.meta, IterFilterMap(self.data, one))

\* EnsembleList::is_empty
is_empty(self) == self.data = << >>

\* filter_map_inner without the test that drops a run left empty.
filter_map_inner_keeps_empty(self, func) ==
    LET Pairs == Range(self.data)
        one == [pair \in Pairs |->
                   Some(<<pair[1], TimeSeries(IterFilterMap(pair[2].data, func))>>)]
    IN  EnsembleList(self.meta, IterFilterMap(self.data, one))

\* filter_map_inner with a meta made anew from the site and the model.
filter_map_inner_fresh_meta(self, func) ==
    LET Pairs == Range(self.data)
        one == [pair \in Pairs |->
                   LET inner_data == TimeSeries(IterFilterMap(pair[2].data, func))
                   IN  IF inner_data.data = << >> THEN None
                       ELSE Some(<<pair[1], inner_data>>)]
    IN  EnsembleList(MetaData(self.meta.site, self.meta.model, 0, 0, 0),
                     IterFilterMap(self.data, one))

\* EnsembleSeries::filter_map_inner
filter_map_inner(self, func) ==
    LET Pairs == Range(self.data)
        one == [pair \in Pairs |->
                   LET inner_data == TimeSeries(IterFilterMap(pair[2].data, func))
                   IN  IF inner_data.data = << >> THEN None
                       ELSE Some(<<pair[1], inner_data>>)]
    IN  EnsembleList(self.meta, IterFilterMap(self.data, one))

\* MergedSeries::filter_map with a meta made anew from the site and the model.
merged_filter_map_fresh_meta(self, func) ==
    MergedSeries(MetaData(self.meta.site, self.meta.model, 0, 0, 0),
                 TimeSeries(IterFilterMap(self.data.data, func)))

\* MergedSeries::filter_map
merged_filter_map(self, func) ==
    MergedSeries(self.meta, TimeSeries(IterFilterMap(self.data.data, func)))

\* ------------------------------------------------------------------ merge

\* The elements of every run, in the order the two nested for_each visit them.
Flatten(data) == Concat([i \in DOMAIN data |-> data[i][2].data])

\* PoolVisit replacing the stored entry on an equal lead time too.
PoolVisit_replaces_on_tie(p, val_t) ==
    IF IsSome(valid_time(val_t)) /\ IsSome(lead_time(val_t))
    THEN LET vt == Unwrap(valid_time(val_t))
             lt == Unwrap(lead_time(val_t))
         IN  IF vt \in DOMAIN p
             THEN IF lt <= Unwrap(lead_time(p[vt]))
                  THEN [p EXCEPT ![vt] = val_t]
                  ELSE p
             ELSE (vt :> val_t) @@ p
    ELSE p

\* PoolVisit keying the pool by lead time instead of valid time.
PoolVisit_keyed_by_lead(p, val_t) ==
    IF IsSome(valid_time(val_t)) /\ IsSome(lead_time(val_t))
    THEN LET lt == Unwrap(lead_time(val_t))
         IN  IF lt \in DOMAIN p
             THEN IF lt < Unwrap(lead_time(p[lt]))
                  THEN [p EXCEPT ![lt] = val_t]
                  ELSE p
             ELSE (lt :> val_t) @@ p
    ELSE p

\* PoolVisit taking an element that has a valid time but no lead time, too.
PoolVisit_takes_no_lead(p, val_t) ==
    IF IsSome(valid_time(val_t))
    THEN LET vt == Unwrap(valid_time(val_t))
         IN  IF vt \in DOMAIN p
             THEN IF OptLT(lead_time(val_t), lead_time(p[vt]))
                  THEN [p EXCEPT ![vt] = val_t]
                  ELSE p
             ELSE (vt :> val_t) @@ p
    ELSE p

\* PoolVisit that never replaces a stored entry: the first seen stays.
PoolVisit_never_replaces(p, val_t) ==
    IF IsSome(valid_time(val_t)) /\ IsSome(lead_time(val_t))
    THEN LET vt == Unwrap(valid_time(val_t))
         IN  IF vt \in DOMAIN p THEN p ELSE (vt :> val_t) @@ p
    ELSE p

\* PoolVisit that, on a shorter lead time, keeps the stored entry and writes
\* the new lead time into it: a record no run of the input holds.
PoolVisit_combines_on_collision(p, val_t) ==
    IF IsSome(valid_time(val_t)) /\ IsSome(lead_time(val_t))
    THEN LET vt == Unwrap(valid_time(val_t))
             lt == Unwrap(lead_time(val_t))
         IN  IF vt \in DOMAIN p
             THEN IF lt < Unwrap(lead_time(p[vt]))
                  THEN [p EXCEPT ![vt] = [@ EXCEPT !.lead_time = lead_time(val_t)]]
                  ELSE p
             ELSE (vt :> val_t) @@ p
    ELSE p

\* PoolVisit that looks at the lead time only when the entry is occupied: a
\* vacant entry takes any element that has a valid time.
PoolVisit_inserts_unchecked(p, val_t) ==
    IF IsSome(valid_time(val_t))
    THEN LET vt == Unwrap(valid_time(val_t))
         IN  IF vt \in DOMAIN p
             THEN IF /\ IsSome(lead_time(val_t))
                     /\ IsSome(lead_time(p[vt]))
                     /\ Unwrap(lead_time(val_t)) < Unwrap(lead_time(p[vt]))
                  THEN [p EXCEPT ![vt] = val_t]
                  ELSE p
             ELSE (vt :> val_t) @@ p
    ELSE p

\* The body of the inner closure of merge: one element against the pool.
PoolVisit(p, val_t) ==
    IF IsSome(valid_time(val_t)) /\ IsSome(lead_time(val_t))
    THEN LET vt == Unwrap(valid_time(val_t))
             lt == Unwrap(lead_time(val_t))
         IN  IF vt \in DOMAIN p
             THEN IF lt < Unwrap(lead_time(p[vt]))
                  THEN [p EXCEPT ![vt] = val_t]
                  ELSE p
             ELSE (vt :> val_t) @@ p
    ELSE p

\* slice::sort_by_key(|val| val.valid_time()): a stable sort.
RECURSIVE InsertByKey(_, _)
InsertByKey(s, x) ==
    IF s = << >> THEN << x >>
    ELSE IF OptLE(valid_time(Head(s)), valid_time(x))
         THEN << Head(s) >> \o InsertByKey(Tail(s), x)
         ELSE << x >> \o s

\* merge without its sort: the pool's iteration order is returned as it is.
sort_by_key_skipped(s) == s

RECURSIVE sort_by_key(_)
sort_by_key(s) ==
    IF s = << >> THEN << >>
    ELSE InsertByKey(sort_by_key(SubSeq(s, 1, Len(s) - 1)), s[Len(s)])

\* pool.into_iter().map(|(_k, v)| v).collect(): the values, in any order the
\* hash map may yield them.
IterOrders(p) ==
    LET n == Cardinality(DOMAIN p)
    IN  {s \in [1..n -> Range(p)] : \A i, j \in 1..n : s[i] = s[j] => i = j}

\* ------------------------------------------------------------------ inputs

OptValidTimes == {None} \cup {Some(t) : t \in ValidTimes}
OptLeadTimes == {None} \cup {Some(l) : l \in LeadTimes}

\* An element of a TimeSeries under test.  tag tells apart two elements that
\* carry the same times: it is the element's place in the input.
Element(vt, lt, tag) == [valid_time |-> vt, lead_time |-> lt, tag |-> tag]

TestMeta == MetaData("KMSO", "GFS", 1, 1, 2)

\* Run lengths: at most MaxRuns runs holding at most MaxElems elements in all.
Shapes ==
    {sh \in UNION {[1..r -> 0..MaxElems] : r \in 0..MaxRuns} :
        SumSeq(sh) <= MaxElems}

Offset(sh, r) == SumSeq(SubSeq(sh, 1, r - 1))

\* The ensemble of shape sh whose k-th element (in iteration order) has the
\* times times[k]; the runs are in ascending init time order, as merge
\* documents, run r having the init time r.
MakeEnsemble(sh, times) ==
    EnsembleList(TestMeta,
        [r \in 1..Len(sh) |->
            << r,
               TimeSeries([i \in 1..sh[r] |->
                   Element(times[Offset(sh, r) + i][1],
                           times[Offset(sh, r) + i][2],
                           Offset(sh, r) + i)]) >>])

\* e is one of the ensembles under test.
IsEnsembleInput(e) ==
    \E sh \in Shapes :
        \E times \in [1..SumSeq(sh) -> OptValidTimes \X OptLeadTimes] :
            e = MakeEnsemble(sh, times)

\* ------------------------------------------------------------------ merge, step by step

EmptyPool == [t \in {} |-> t]

\* No transform is under test.
NoMerge ==
    /\ ens = None
    /\ pool = EmptyPool
    /\ pos = 0
    /\ mpc = "none"
    /\ kept = {}
    /\ result = None
    /\ derived = None

\* No loader was called.
NoLoad ==
    /\ loader = None
    /\ lpc = "none"
    /\ locals = None
    /\ calls = << >>
    /\ sent = << >>
    /\ chan = << >>
    /\ rx = "none"
    /\ recvd = << >>

\* Neither plot_all nor save_all was called.
NoPipe ==
    /\ driver = "none"
    /\ dpc = "none"
    /\ cur = None
    /\ trail = << >>
    /\ reported = << >>
    /\ out = << >>

InitMerge ==
    /\ scenario = "merge"
    /\ NoLoad
    /\ NoPipe
    /\ IsEnsembleInput(ens)
    /\ pool = EmptyPool
    /\ pos = 0
    /\ mpc = "idle"
    /\ kept = {}
    /\ result = None
    /\ derived = None

\* merge(self): destructure self, create the empty pool.
MergeBegin ==
    /\ scenario = "merge"
    /\ mpc = "idle"
    /\ mpc' = "loop"
    /\ pool' = EmptyPool
    /\ pos' = 0
    /\ UNCHANGED <<scenario, ens, kept, result, derived, loadVars, pipeVars>>

\* cmp_val.lead_time().unwrap() would be called on a stored entry that has no
\* lead time: val_t has both times and meets an entry of its valid time.
StoredLeadMissing(p, val_t) ==
    /\ IsSome(valid_time(val_t)) /\ IsSome(lead_time(val_t))
    /\ Unwrap(valid_time(val_t)) \in DOMAIN p
    /\ lead_time(p[Unwrap(valid_time(val_t))]) = None

\* One turn of the inner for_each; an unwrap of None panics.
MergeVisit ==
    /\ scenario = "merge"
    /\ mpc = "loop"
    /\ pos < Len(Flatten(ens.data))
    /\ LET val_t == Flatten(ens.data)[pos + 1]
       IN  IF StoredLeadMissing(pool, val_t)
           THEN /\ mpc' = "panicked"
                /\ UNCHANGED <<pool, pos>>
           ELSE /\ pool' = PoolVisit(pool, val_t)
                /\ pos' = pos + 1
                /\ UNCHANGED mpc
    /\ UNCHANGED <<scenario, ens, kept, result, derived, loadVars, pipeVars>>

\* MergeCollect without the sort: the values as the pool yields them.
MergeCollect_unsorted ==
    /\ scenario = "merge"
    /\ mpc = "loop"
    /\ pos = Len(Flatten(ens.data))
    /\ \E order \in IterOrders(pool) :
           result' = MergedSeries(ens.meta, TimeSeries(order))
    /\ mpc' = "merged"
    /\ UNCHANGED <<scenario, ens, pool, pos, kept, derived, loadVars, pipeVars>>

\* Both loops are over: collect the pool's values, sort them, wrap them.
MergeCollect ==
    /\ scenario = "merge"
    /\ mpc = "loop"
    /\ pos = Len(Flatten(ens.data))
    /\ \E order \in IterOrders(pool) :
           result' = MergedSeries(ens.meta, TimeSeries(sort_by_key(order)))
    /\ mpc' = "merged"
    /\ UNCHANGED <<scenario, ens, pool, pos, kept, derived, loadVars, pipeVars>>

\* ------------------------------------------------------------------ the filter maps, applied

\* What a func under test makes of a value it keeps.
Mapped(x) == [from |-> x]

\* A func: T -> Option<U> under test: Some for the values in keep, else None.
FuncOver(dom, keep) ==
    [x \in dom |-> IF x \in keep THEN Some(Mapped(x)) ELSE None]

Payloads(self) == {self.data[i][2] : i \in DOMAIN self.data}

FilterMapInner ==
    /\ scenario = "merge"
    /\ mpc = "idle"
    /\ \E keep \in SUBSET Range(Flatten(ens.data)) :
           /\ kept' = keep
           /\ result' = filter_map_inner(ens,
                             FuncOver(Range(Flatten(ens.data)), keep))
    /\ mpc' = "filter_map_inner"
    /\ UNCHANGED <<scenario, ens, pool, pos, derived, loadVars, pipeVars>>

FilterMap ==
    /\ scenario = "merge"
    /\ mpc = "idle"
    /\ \E keep \in SUBSET Payloads(ens) :
           /\ kept' = keep
           /\ result' = filter_map(ens, FuncOver(Payloads(ens), keep))
    /\ mpc' = "filter_map"
    /\ UNCHANGED <<scenario, ens, pool, pos, derived, loadVars, pipeVars>>

\* MergedSeries::filter_map(&self, func) on the series merge returned.
MergedFilterMap ==
    /\ scenario = "merge"
    /\ mpc = "merged"
    /\ \E keep \in SUBSET Range(result.data.data) :
           /\ kept' = keep
           /\ derived' = merged_filter_map(result,
                              FuncOver(Range(result.data.data), keep))
    /\ mpc' = "merged_filter_map"
    /\ UNCHANGED <<scenario, ens, pool, pos, result, loadVars, pipeVars>>

NextMerge ==
    \/ MergeBegin
    \/ MergeVisit
    \/ MergeCollect
    \/ FilterMapInner
    \/ FilterMap
    \/ MergedFilterMap

SpecMerge == InitMerge /\ [][NextMerge]_vars

\* ------------------------------------------------------------------ messages and the channel

\* InnerMessage::StringData(StringData { meta, data }) in a Message
StringDataMsg(meta, data) == [tag |-> "StringData", meta |-> meta, data |-> data]
\* InnerMessage::BufkitDataError(err) in a Message
ErrorMsg(err) == [tag |-> "BufkitDataError", err |-> err]

\* sender.send(msg).unwrap() and then going to next: the send of an unbounded
\* channel never blocks; it fails, and the unwrap panics the thread, when the
\* Receiver is gone.
SendUnwrap(msg, next) ==
    /\ sent' = Append(sent, msg)
    /\ chan' = IF rx = "dropped" THEN chan ELSE Append(chan, msg)
    /\ lpc' = IF rx = "dropped" THEN "panicked" ELSE next

\* The thread keeping its Sender for ever.
ThreadOver_sender_kept == FALSE

\* The spawned thread is over and its Sender dropped.
ThreadOver == lpc \in {"done", "panicked"}

\* ------------------------------------------------------------------ the archive and the files

\* Model::iter(): the models, in the enum's order.
Models == << "GFS", "NAM", "NAM4KM" >>

\* num_days with the days of NAM and NAM4KM taken for each other.
num_days_swapped(model) ==
    CASE model = "GFS" -> 7 [] model = "NAM" -> 3 [] model = "NAM4KM" -> 4

\* num_days: the number of days of data available for each model.
num_days(model) ==
    CASE model = "GFS" -> 7
      [] model = "NAM" -> 4
      [] model = "NAM4KM" -> 3

\* Sites an archive under test knows, files a FileData under test lists,
\* texts a retrieval under test returns.
MaxSites == 2
MaxFiles == 3
MaxStrings == 2

Sites == 1..MaxSites

\* Init times the texts under test carry, reference times and days_back of
\* the calls under test (days).
InitTimes == {1, 2}
RefTimes == {10}
DaysBack == {2, 4}
\* days_back of the calls of the fan-out under test: bin/plot_all.rs's.
FanDaysBack == {2}

\* What a file or a retrieved text holds: text that BufkitData::init rejects,
\* text whose first sounding has no valid time (or that has no sounding), or
\* text whose first sounding is valid at init.
Texts ==
    {[kind |-> "malformed", init |-> None], [kind |-> "no_time", init |-> None]}
        \cup {[kind |-> "good", init |-> Some(t)] : t \in InitTimes}

\* A path of a FileData: a file that cannot be opened or read, or a text.
Files == {[kind |-> "unreadable", init |-> None]} \cup Texts

\* BufkitData::init(&string, "") ... .nth(0).and_then(|(snd, _)| snd.valid_time())
init_time_of(text) == IF text.kind = "good" THEN text.init ELSE None

\* The Result of reading file k of the list and finding its init time: the
\* pair, or the error.  The string of file k is written k.
read_file(files, k) ==
    CASE files[k].kind = "unreadable" -> [ok |-> FALSE, err |-> "Io"]
      [] files[k].kind = "malformed" -> [ok |-> FALSE, err |-> "Parse"]
      [] files[k].kind = "no_time" -> [ok |-> FALSE, err |-> "NotEnoughData"]
      [] OTHER -> [ok |-> TRUE, pair |-> <<Unwrap(files[k].init), k>>]

\* init_pairs giving up at the first text it cannot take an init time from.
RECURSIVE init_pairs_until_bad(_)
init_pairs_until_bad(texts) ==
    IF texts = << >> \/ ~IsSome(init_time_of(texts[1])) THEN << >>
    ELSE LET rest == init_pairs_until_bad(Tail(texts))
         IN  << <<Unwrap(init_time_of(texts[1])), 1>> >>
                 \o [j \in 1..Len(rest) |-> <<rest[j][1], rest[j][2] + 1>>]

\* data.filter_map(|string| ... Some((init_time, string))).collect() over the
\* retrieved texts; the string of text k is written k.
init_pairs(texts) ==
    Concat([k \in 1..Len(texts) |->
        IF IsSome(init_time_of(texts[k]))
        THEN << <<Unwrap(init_time_of(texts[k])), k>> >>
        ELSE << >>])

SeqsUpTo(S, n) == UNION {[1..k -> S] : k \in 0..n}

\* ------------------------------------------------------------------ load_from_files

NoLocals ==
    [fidx |-> 1, strings |-> << >>, err |-> None, site_info |-> None,
     now |-> 0, start |-> 0, end |-> 0, midx |-> 1, sites |-> << >>]

InitLoadFiles ==
    /\ \E files \in SeqsUpTo(Files, MaxFiles) :
           loader = [kind |-> "files", site |-> 1, model |-> "LocalWrf",
                     start |-> 1, end |-> 4, files |-> files]
    /\ lpc = "read"
    /\ locals = NoLocals

\* One turn of the collect() into a Result: the next file is read and its
\* init time parsed; the first error ends the iteration.
FilesRead ==
    /\ loader.kind = "files"
    /\ lpc = "read"
    /\ locals.fidx <= Len(loader.files)
    /\ LET r == read_file(loader.files, locals.fidx)
       IN  /\ calls' = Append(calls, [op |-> "read", arg |-> locals.fidx, ok |-> r.ok])
           /\ IF r.ok
              THEN /\ locals' = [locals EXCEPT !.fidx = @ + 1,
                                               !.strings = Append(@, r.pair)]
                   /\ lpc' = "read"
              ELSE /\ locals' = [locals EXCEPT !.err = Some(r.err)]
                   /\ lpc' = "send"
    /\ UNCHANGED <<scenario, mergeVars, pipeVars, loader, sent, chan, rx, recvd>>

\* The iteration is over without an error.
FilesCollected ==
    /\ loader.kind = "files"
    /\ lpc = "read"
    /\ locals.fidx > Len(loader.files)
    /\ lpc' = "send"
    /\ UNCHANGED <<scenario, mergeVars, pipeVars, loader, locals, calls, sent, chan, rx, recvd>>

\* FilesSend that sends what was collected before the error, then the error.
FilesSend_partial ==
    /\ loader.kind = "files"
    /\ lpc = "send"
    /\ LET meta == MetaData(loader.site, loader.model, loader.start,
                            loader.start, loader.end)
       IN  IF IsSome(locals.err) /\ locals.strings = << >>
           THEN SendUnwrap(ErrorMsg(Unwrap(locals.err)), "done")
           ELSE /\ SendUnwrap(StringDataMsg(meta, locals.strings),
                              IF IsSome(locals.err) THEN "send" ELSE "done")
                /\ locals' = [locals EXCEPT !.strings = << >>]
    /\ IsSome(locals.err) /\ locals.strings = << >> => UNCHANGED locals
    /\ UNCHANGED <<scenario, mergeVars, pipeVars, loader, calls, rx, recvd>>

\* match strings { Ok(strings) => send StringData, Err(err) => send the error }
FilesSend ==
    /\ loader.kind = "files"
    /\ lpc = "send"
    /\ LET meta == MetaData(loader.site, loader.model, loader.start,
                            loader.start, loader.end)
       IN  IF IsSome(locals.err)
           THEN SendUnwrap(ErrorMsg(Unwrap(locals.err)), "done")
           ELSE SendUnwrap(StringDataMsg(meta, locals.strings), "done")
    /\ UNCHANGED <<scenario, mergeVars, pipeVars, loader, locals, calls, rx, recvd>>

\* ------------------------------------------------------------------ load_for_site_and_date_and_time

\* What retrieve_all_valid_in may answer: an error, or the texts of the runs
\* with soundings valid in the window (none when there is no such run).
Retrievals ==
    {[ok |-> FALSE, err |-> "Retrieve"]}
        \cup {[ok |-> TRUE, texts |-> t] : t \in SeqsUpTo(Texts, MaxStrings)}

InitLoadRange ==
    /\ \E site \in Sites, m \in 1..Len(Models), time \in RefTimes, days_back \in DaysBack :
           loader = [kind |-> "range", site |-> site, model |-> Models[m],
                     time |-> time, days_back |-> days_back]
    /\ lpc = "connect"
    /\ locals = NoLocals

\* RangeConnect without the return that follows the send of the error.
RangeConnect_no_return ==
    /\ loader.kind = "range"
    /\ lpc = "connect"
    /\ \E ok \in BOOLEAN :
           /\ calls' = Append(calls, [op |-> "connect", arg |-> 0, ok |-> ok])
           /\ IF ok
              THEN /\ lpc' = "lookup"
                   /\ UNCHANGED <<sent, chan>>
              ELSE SendUnwrap(ErrorMsg("Connect"), "lookup")
    /\ UNCHANGED <<scenario, mergeVars, pipeVars, loader, locals, rx, recvd>>

\* Archive::connect(&root): Ok, or Err sent as it is and return.
RangeConnect ==
    /\ loader.kind = "range"
    /\ lpc = "connect"
    /\ \E ok \in BOOLEAN :
           /\ calls' = Append(calls, [op |-> "connect", arg |-> 0, ok |-> ok])
           /\ IF ok
              THEN /\ lpc' = "lookup"
                   /\ UNCHANGED <<sent, chan>>
              ELSE SendUnwrap(ErrorMsg("Connect"), "done")
    /\ UNCHANGED <<scenario, mergeVars, pipeVars, loader, locals, rx, recvd>>

\* start and end, then station_num_for_id and arch.site: the site's info, or
\* the error of the first, or NotInIndex, sent and return.
RangeLookup ==
    /\ loader.kind = "range"
    /\ lpc = "lookup"
    /\ \E answer \in {"Ok", "StationNum", "NotInIndex"} :
           /\ calls' = Append(calls, [op |-> "lookup", arg |-> loader.site,
                                      ok |-> answer = "Ok"])
           /\ IF answer = "Ok"
              THEN /\ locals' = [locals EXCEPT
                          !.start = loader.time - loader.days_back,
                          !.end = loader.time + num_days(loader.model),
                          !.site_info = Some(loader.site)]
                   /\ lpc' = "retrieve"
                   /\ UNCHANGED <<sent, chan>>
              ELSE /\ locals' = [locals EXCEPT
                          !.start = loader.time - loader.days_back,
                          !.end = loader.time + num_days(loader.model)]
                   /\ SendUnwrap(ErrorMsg(answer), "done")
    /\ UNCHANGED <<scenario, mergeVars, pipeVars, loader, rx, recvd>>

\* RangeRetrieve reporting NotEnoughData when no text with an init time is left.
RangeRetrieve_empty_is_error ==
    /\ loader.kind = "range"
    /\ lpc = "retrieve"
    /\ \E r \in Retrievals :
           /\ calls' = Append(calls, [op |-> "retrieve", arg |-> r, ok |-> r.ok])
           /\ IF r.ok /\ init_pairs(r.texts) # << >>
              THEN SendUnwrap(
                       StringDataMsg(
                           MetaData(Unwrap(locals.site_info), loader.model,
                                    locals.start, loader.time, locals.end),
                           init_pairs(r.texts)),
                       "done")
              ELSE SendUnwrap(ErrorMsg(IF r.ok THEN "NotEnoughData" ELSE r.err),
                              "done")
    /\ UNCHANGED <<scenario, mergeVars, pipeVars, loader, locals, rx, recvd>>

\* retrieve_all_valid_in: the texts with an init time in a StringData, or the
\* error; either is sent, and the thread ends.
RangeRetrieve ==
    /\ loader.kind = "range"
    /\ lpc = "retrieve"
    /\ \E r \in Retrievals :
           /\ calls' = Append(calls, [op |-> "retrieve", arg |-> r, ok |-> r.ok])
           /\ IF r.ok
              THEN SendUnwrap(
                       StringDataMsg(
                           MetaData(Unwrap(locals.site_info), loader.model,
                                    locals.start, loader.time, locals.end),
                           init_pairs(r.texts)),
                       "done")
              ELSE SendUnwrap(ErrorMsg(r.err), "done")
    /\ UNCHANGED <<scenario, mergeVars, pipeVars, loader, locals, rx, recvd>>

\* ------------------------------------------------------------------ load_all_sites_and_models

\* What retrieve_all_valid_in answers in the calls of the fan-out under test:
\* an error, no text, or a text BufkitData::init rejects and a good one.
FanRetrievals ==
    {[ok |-> FALSE, err |-> "Retrieve"],
     [ok |-> TRUE, texts |-> << >>],
     [ok |-> TRUE, texts |-> << [kind |-> "malformed", init |-> None],
                                [kind |-> "good", init |-> Some(1)] >>]}

\* The sites of a set, as sites_and_ids_for lists them.
RECURSIVE SitesInOrder(_)
SitesInOrder(S) ==
    IF S = {} THEN << >>
    ELSE LET lo == CHOOSE x \in S : \A y \in S : x <= y
         IN  << lo >> \o SitesInOrder(S \ {lo})

\* loader.archive[m]: the sites the archive holds for model m.
InitLoadFanout ==
    /\ \E days_back \in FanDaysBack, archive \in [1..Len(Models) -> SUBSET Sites] :
           loader = [kind |-> "fanout", days_back |-> days_back, archive |-> archive]
    /\ lpc = "connect"
    /\ locals = NoLocals

\* Archive::connect(&root), then now and start: or the error sent, and return.
FanConnect ==
    /\ loader.kind = "fanout"
    /\ lpc = "connect"
    /\ \E ok \in BOOLEAN, now \in RefTimes :
           /\ calls' = Append(calls, [op |-> "connect", arg |-> 0, ok |-> ok])
           /\ IF ok
              THEN /\ locals' = [locals EXCEPT !.now = now,
                                               !.start = now - loader.days_back,
                                               !.midx = 1]
                   /\ lpc' = "models"
                   /\ UNCHANGED <<sent, chan>>
              ELSE /\ SendUnwrap(ErrorMsg("Connect"), "done")
                   /\ UNCHANGED locals
    /\ UNCHANGED <<scenario, mergeVars, pipeVars, loader, rx, recvd>>

\* The head of the outer for: sites_and_ids_for(model), then end; or the error
\* sent, and return.
FanListSites ==
    /\ loader.kind = "fanout"
    /\ lpc = "models"
    /\ locals.midx <= Len(Models)
    /\ \E ok \in BOOLEAN :
           /\ calls' = Append(calls, [op |-> "sites", arg |-> locals.midx, ok |-> ok])
           /\ IF ok
              THEN /\ locals' = [locals EXCEPT
                          !.sites = SitesInOrder(loader.archive[locals.midx]),
                          !.end = locals.now + num_days(Models[locals.midx])]
                   /\ lpc' = "sites"
                   /\ UNCHANGED <<sent, chan>>
              ELSE /\ SendUnwrap(ErrorMsg("Sites"), "done")
                   /\ UNCHANGED locals
    /\ UNCHANGED <<scenario, mergeVars, pipeVars, loader, rx, recvd>>

\* FanRetrieve that returns after it sent a retrieval's error.
FanRetrieve_returns_on_error ==
    /\ loader.kind = "fanout"
    /\ lpc = "sites"
    /\ locals.sites # << >>
    /\ \E r \in FanRetrievals :
           /\ calls' = Append(calls, [op |-> "retrieve",
                                      arg |-> <<Head(locals.sites), locals.midx>>,
                                      ok |-> r.ok, got |-> r])
           /\ IF r.ok
              THEN SendUnwrap(
                       StringDataMsg(
                           MetaData(Head(locals.sites), Models[locals.midx],
                                    locals.start, locals.now, locals.end),
                           init_pairs(r.texts)),
                       "sites")
              ELSE SendUnwrap(ErrorMsg(r.err), "done")
    /\ locals' = [locals EXCEPT !.sites = Tail(@)]
    /\ UNCHANGED <<scenario, mergeVars, pipeVars, loader, rx, recvd>>

\* One turn of the inner for: retrieve_all_valid_in for the site; the texts
\* with an init time in a StringData, or the error, sent; on to the next site.
FanRetrieve ==
    /\ loader.kind = "fanout"
    /\ lpc = "sites"
    /\ locals.sites # << >>
    /\ \E r \in FanRetrievals :
           /\ calls' = Append(calls, [op |-> "retrieve",
                                      arg |-> <<Head(locals.sites), locals.midx>>,
                                      ok |-> r.ok, got |-> r])
           /\ IF r.ok
              THEN SendUnwrap(
                       StringDataMsg(
                           MetaData(Head(locals.sites), Models[locals.midx],
                                    locals.start, locals.now, locals.end),
                           init_pairs(r.texts)),
                       "sites")
              ELSE SendUnwrap(ErrorMsg(r.err), "sites")
    /\ locals' = [locals EXCEPT !.sites = Tail(@)]
    /\ UNCHANGED <<scenario, mergeVars, pipeVars, loader, rx, recvd>>

\* The inner for is over: the next model.
FanNextModel ==
    /\ loader.kind = "fanout"
    /\ lpc = "sites"
    /\ locals.sites = << >>
    /\ locals' = [locals EXCEPT !.midx = @ + 1]
    /\ lpc' = "models"
    /\ UNCHANGED <<scenario, mergeVars, pipeVars, loader, calls, sent, chan, rx, recvd>>

\* The outer for is over: the closure returns.
FanDone ==
    /\ loader.kind = "fanout"
    /\ lpc = "models"
    /\ locals.midx > Len(Models)
    /\ lpc' = "done"
    /\ UNCHANGED <<scenario, mergeVars, pipeVars, loader, locals, calls, sent, chan, rx, recvd>>

\* ------------------------------------------------------------------ the holder of the Receiver

\* The caller drops the Receiver it was returned, with what the queue holds.
DropReceiver ==
    /\ scenario = "load"
    /\ rx = "held"
    /\ rx' = "dropped"
    /\ chan' = << >>
    /\ UNCHANGED <<scenario, mergeVars, pipeVars, loader, lpc, locals, calls, sent, recvd>>

\* Receiver::recv (the iterator's next) with a message in the queue.
Recv ==
    /\ scenario = "load"
    /\ rx = "held"
    /\ chan # << >>
    /\ recvd' = Append(recvd, Head(chan))
    /\ chan' = Tail(chan)
    /\ UNCHANGED <<scenario, mergeVars, pipeVars, loader, lpc, locals, calls, sent, rx>>

\* Receiver::recv with the queue empty and the Sender dropped: the channel is
\* disconnected and the iteration over it ends.
RecvDisconnected ==
    /\ scenario = "load"
    /\ rx = "held"
    /\ chan = << >>
    /\ ThreadOver
    /\ rx' = "finished"
    /\ UNCHANGED <<scenario, mergeVars, pipeVars, loader, lpc, locals, calls, sent, chan, recvd>>

\* ------------------------------------------------------------------ the loaders, run

InitLoad ==
    /\ scenario = "load"
    /\ NoMerge
    /\ NoPipe
    /\ InitLoadFiles \/ InitLoadRange \/ InitLoadFanout
    /\ calls = << >>
    /\ sent = << >>
    /\ chan = << >>
    /\ rx = "held"
    /\ recvd = << >>

LoaderStep ==
    \/ FilesRead \/ FilesCollected \/ FilesSend
    \/ RangeConnect \/ RangeLookup \/ RangeRetrieve
    \/ FanConnect \/ FanListSites \/ FanRetrieve \/ FanNextModel \/ FanDone

\* A loader's thread and a caller that may drop the Receiver at any moment.
NextLoad == LoaderStep \/ DropReceiver

SpecLoad == InitLoad /\ [][NextLoad]_vars

\* A loader's thread and a caller that iterates over the Receiver.
NextChannel == LoaderStep \/ Recv \/ RecvDisconnected

SpecChannel ==
    InitLoad /\ [][NextChannel]_vars
        /\ WF_vars(LoaderStep) /\ WF_vars(Recv) /\ WF_vars(RecvDisconnected)

\* ------------------------------------------------------------------ the soundings

\* How many messages a call of the driver is given at most, and how many text
\* blocks a message holds at most.
MaxMsgs == 3
MaxBlocks == 2

\* analyze_cape_partitions pushes one CapePartition for each i in 0..=NUM_DT.
NUM_DT == 60

\* What the driver reads of one sounding of a text block: its valid time, its
\* lead time, and whether mixed_layer_parcel finds a parcel in it.
Sounding(vt, lt, parcel) == [valid_time |-> vt, lead_time |-> lt, parcel |-> parcel]

\* One sounding analysis of a parsed block; tag tells where in the message it
\* stood.
Analysis(snd, tag) ==
    [valid_time |-> snd.valid_time, lead_time |-> snd.lead_time,
     parcel |-> snd.parcel, tag |-> tag]

\* The text blocks: one BufkitData::init rejects, one with nothing inside the
\* window [1, 2] of TestMeta, one whose sounding has no lead time, and two
\* whose soundings meet at the valid times 1 and 2 with different lead times.
PipeTexts ==
    { [kind |-> "malformed", snds |-> << >>],
      [kind |-> "bufkit", snds |-> <<Sounding(None, Some(0), TRUE),
                                     Sounding(Some(3), Some(0), TRUE)>>],
      [kind |-> "bufkit", snds |-> <<Sounding(Some(1), None, TRUE)>>],
      [kind |-> "bufkit", snds |-> <<Sounding(Some(1), Some(0), TRUE),
                                     Sounding(Some(2), Some(1), FALSE)>>],
      [kind |-> "bufkit", snds |-> <<Sounding(Some(0), Some(0), TRUE),
                                     Sounding(Some(1), Some(1), TRUE),
                                     Sounding(Some(2), Some(0), TRUE)>>] }

\* A text block of a message; id tells the blocks of a message apart.
Block(t, id) == [kind |-> t.kind, snds |-> t.snds, id |-> id]

\* The MetaData of another site and model, whose window is [2, 3].
OtherMeta == MetaData("KGEG", "NAM", 2, 2, 3)

\* The items the driver can be given: an error, the blocks of up to
\* MaxBlocks runs under TestMeta, run r initialised at r, or one block under
\* OtherMeta.
PipeMessages ==
    {ErrorMsg("Io")} \cup
    {StringDataMsg(TestMeta, [r \in 1..Len(ts) |-> <<r, Block(ts[r], r)>>]) :
        ts \in SeqsUpTo(PipeTexts, MaxBlocks)} \cup
    {StringDataMsg(OtherMeta, << <<1, Block(t, 1)>> >>) : t \in PipeTexts}

\* parse_sounding with the end of the window left out.
parse_sounding_end_excluded(start, end) ==
    [str_data \in {Block(t, id) : t \in PipeTexts, id \in 1..MaxBlocks} |->
        IF str_data.kind = "malformed" THEN None
        ELSE LET anals == [k \in 1..Len(str_data.snds) |->
                              Analysis(str_data.snds[k], <<str_data.id, k>>)]
                 InWindow(anal) ==
                     /\ IsSome(valid_time(anal))
                     /\ Unwrap(valid_time(anal)) >= start
                     /\ Unwrap(valid_time(anal)) < end
                 vec_anals == SelectSeq(anals, InWindow)
             IN  IF vec_anals = << >> THEN None
                 ELSE Some(TimeSeries(vec_anals))]

\* parse_sounding(str_data, start, end), as a function of the block.
parse_sounding(start, end) ==
    [str_data \in {Block(t, id) : t \in PipeTexts, id \in 1..MaxBlocks} |->
        IF str_data.kind = "malformed" THEN None
        ELSE LET anals == [k \in 1..Len(str_data.snds) |->
                              Analysis(str_data.snds[k], <<str_data.id, k>>)]
                 InWindow(anal) ==
                     /\ IsSome(valid_time(anal))
                     /\ Unwrap(valid_time(anal)) >= start
                     /\ Unwrap(valid_time(anal)) <= end
                 vec_anals == SelectSeq(anals, InWindow)
             IN  IF vec_anals = << >> THEN None
                 ELSE Some(TimeSeries(vec_anals))]

\* AnalyzedData { valid_time, lead_time, .. }: its accessors answer Some.
AnalyzedData(vt, lt, tag) == [valid_time |-> Some(vt), lead_time |-> Some(lt), tag |-> tag]

\* analyze that takes a sounding without a lead time as one of lead time 0.
analyze_defaults_lead(anals) ==
    [anal \in anals |->
        IF IsSome(valid_time(anal))
        THEN Some(AnalyzedData(Unwrap(valid_time(anal)),
                               IF IsSome(lead_time(anal))
                               THEN Unwrap(lead_time(anal)) ELSE 0,
                               anal.tag))
        ELSE None]

\* analyze, as a function of the analyses of a series.
analyze(anals) ==
    [anal \in anals |->
        IF IsSome(valid_time(anal)) /\ IsSome(lead_time(anal))
        THEN Some(AnalyzedData(Unwrap(valid_time(anal)), Unwrap(lead_time(anal)),
                               anal.tag))
        ELSE None]

\* CapePartition { valid_time, dt, dry, wet }: its valid time is always there.
CapePartition(vt, i) == [valid_time |-> Some(vt), dt |-> i]

\* analyze_cape_partitions, as a function of the analyses of a series.
analyze_cape_partitions(anals) ==
    [anal \in anals |->
        IF IsSome(valid_time(anal)) /\ anal.parcel
        THEN Some([i \in 1..(NUM_DT + 1) |->
                      CapePartition(Unwrap(valid_time(anal)), i - 1)])
        ELSE None]

\* merge in one piece: the pool after every element was visited, its values in
\* one of the orders the HashMap can give them, sorted.
RECURSIVE PoolAfter(_)
PoolAfter(elems) ==
    IF elems = << >> THEN EmptyPool
    ELSE PoolVisit(PoolAfter(SubSeq(elems, 1, Len(elems) - 1)), elems[Len(elems)])

merge(self) ==
    {MergedSeries(self.meta, TimeSeries(sort_by_key(order))) :
        order \in IterOrders(PoolAfter(Flatten(self.data)))}

\* ------------------------------------------------------------------ plot_all and save_all

\* The locals of the iterator chain for the item in hand.
Item(msg) ==
    [msg |-> msg, ens_ser_anal |-> None, analyzed_data |-> None,
     merged_ser_anal |-> None, cape_parts |-> None,
     merged |-> None, wrote |-> {}]

\* The rows write_ensemble_data, write_merged_data and
\* write_merged_heat_map_data write for what they are given, one per element;
\* wrote tells which of them were called for the item.
EnsembleRows(ens_data) == Flatten(ens_data.data)
MergedRows(mrg) == mrg.data.data
HeatMapRows(cape_parts) == Concat(cape_parts.data.data)

Stage(name) == trail' = [trail EXCEPT ![Len(trail)] = Append(@, name)]

\* Write putting the output in front of everything written before.
Write_in_front(what, ok) == out' = <<[msg |-> Len(trail), what |-> what, ok |-> ok]>> \o out

\* One output of the item in hand goes to the sink, after all that went before.
Write(what, ok) == out' = Append(out, [msg |-> Len(trail), what |-> what, ok |-> ok])

InitPipe ==
    /\ scenario = "pipe"
    /\ NoMerge
    /\ NoLoad
    /\ driver \in {"plot_all", "save_all"}
    /\ dpc = IF driver = "plot_all" THEN "launch" ELSE "next"
    /\ cur = None
    /\ trail = << >>
    /\ reported = << >>
    /\ out = << >>

\* plot_all: launch_gnuplot(prefix)?
PipeLaunch ==
    /\ dpc = "launch"
    /\ \E ok \in BOOLEAN : dpc' = IF ok THEN "next" ELSE "failed"
    /\ UNCHANGED <<scenario, mergeVars, loadVars, driver, cur, trail, reported, out>>

\* for_each pulls the next item through the chain, or the iterator is over
\* and the driver returns Ok(()).
PipeNext ==
    /\ dpc = "next"
    /\ \/ /\ Len(trail) < MaxMsgs
          /\ \E msg \in PipeMessages : cur' = Some(Item(msg))
          /\ trail' = Append(trail, <<"Received">>)
          /\ dpc' = "payload"
       \/ /\ dpc' = "done"
          /\ UNCHANGED <<cur, trail>>
    /\ UNCHANGED <<scenario, mergeVars, loadVars, driver, reported, out>>

\* The branch on the payload: an error is reported and the item is dropped.
PipePayload ==
    /\ dpc = "payload"
    /\ IF Unwrap(cur).msg.tag = "BufkitDataError"
       THEN /\ reported' = Append(reported, Len(trail))
            /\ trail' = [trail EXCEPT ![Len(trail)] =
                             @ \o <<"ErrorPayload", "Reported&Dropped">>]
            /\ dpc' = "next"
       ELSE /\ dpc' = "parse"
            /\ UNCHANGED <<reported, trail>>
    /\ UNCHANGED <<scenario, mergeVars, loadVars, driver, cur, out>>

\* The first closure of the chain, without its is_empty test.
PipeParse_keeps_empty ==
    /\ dpc = "parse"
    /\ LET str_data == EnsembleList(Unwrap(cur).msg.meta, Unwrap(cur).msg.data)
           start == str_data.meta.start
           end == str_data.meta.end
           ens_list_anal == filter_map(str_data, parse_sounding(start, end))
       IN  /\ cur' = Some([Unwrap(cur) EXCEPT !.ens_ser_anal = Some(ens_list_anal)])
           /\ Stage("Parsed&NonEmpty")
           /\ dpc' = "analyze"
    /\ UNCHANGED <<scenario, mergeVars, loadVars, driver, reported, out>>

\* The first closure of the chain: parse every block inside the window of the
\* message; an ensemble left with no run ends the item here.
PipeParse ==
    /\ dpc = "parse"
    /\ LET str_data == EnsembleList(Unwrap(cur).msg.meta, Unwrap(cur).msg.data)
           start == str_data.meta.start
           end == str_data.meta.end
           ens_list_anal == filter_map(str_data, parse_sounding(start, end))
       IN  IF is_empty(ens_list_anal)
           THEN /\ trail' = [trail EXCEPT ![Len(trail)] = @ \o <<"ParseEmpty", "Dropped">>]
                /\ dpc' = "next"
                /\ UNCHANGED cur
           ELSE /\ cur' = Some([Unwrap(cur) EXCEPT !.ens_ser_anal = Some(ens_list_anal)])
                /\ Stage("Parsed&NonEmpty")
                /\ dpc' = "analyze"
    /\ UNCHANGED <<scenario, mergeVars, loadVars, driver, reported, out>>

\* The second closure: analyzed_data = ens_ser_anal.filter_map_inner(analyze)
PipeAnalyze ==
    /\ dpc = "analyze"
    /\ LET ens_ser_anal == Unwrap(Unwrap(cur).ens_ser_anal)
           analyzed_data == filter_map_inner(ens_ser_anal,
                                analyze(Range(Flatten(ens_ser_anal.data))))
       IN  cur' = Some([Unwrap(cur) EXCEPT !.analyzed_data = Some(analyzed_data)])
    /\ Stage("Analyzed")
    /\ dpc' = "merge"
    /\ UNCHANGED <<scenario, mergeVars, loadVars, driver, reported, out>>

\* The third and fourth closures: merged_ser_anal = ens_ser_anal.merge(),
\* cape_parts = merged_ser_anal.filter_map(analyze_cape_partitions)
PipeMerge ==
    /\ dpc = "merge"
    /\ \E merged_ser_anal \in merge(Unwrap(Unwrap(cur).ens_ser_anal)) :
          LET cape_parts == merged_filter_map(merged_ser_anal,
                                analyze_cape_partitions(Range(merged_ser_anal.data.data)))
          IN  cur' = Some([Unwrap(cur) EXCEPT !.merged_ser_anal = Some(merged_ser_anal),
                                              !.cape_parts = Some(cape_parts)])
    /\ Stage("Merged")
    /\ dpc' = IF driver = "plot_all" THEN "plot_ens" ELSE "save"
    /\ UNCHANGED <<scenario, mergeVars, loadVars, driver, reported, out>>

\* plot_all's for_each closure, first half: gp_plot_ens(..).unwrap_or(())
PipePlotEns ==
    /\ dpc = "plot_ens"
    /\ Stage("Delivered")
    /\ \E ok \in BOOLEAN : Write("ens", ok)
    /\ cur' = Some([Unwrap(cur) EXCEPT !.wrote = {"ens"}])
    /\ dpc' = "plot_mrg"
    /\ UNCHANGED <<scenario, mergeVars, loadVars, driver, reported>>

\* plot_all's for_each closure, second half: merged = analyzed_data.merge(),
\* gp_plot_mrg(..).unwrap_or(()), which asserts that the metas agree.
PipePlotMrg ==
    /\ dpc = "plot_mrg"
    /\ \E merged \in merge(Unwrap(Unwrap(cur).analyzed_data)) :
          IF Unwrap(Unwrap(cur).cape_parts).meta = merged.meta
          THEN /\ \E ok \in BOOLEAN : Write("mrg", ok)
               /\ cur' = Some([Unwrap(cur) EXCEPT !.merged = Some(merged),
                                                   !.wrote = @ \cup {"mrg", "hm"}])
               /\ dpc' = "next"
          ELSE /\ dpc' = "panicked"
               /\ UNCHANGED <<out, cur>>
    /\ UNCHANGED <<scenario, mergeVars, loadVars, driver, trail, reported>>

\* save_all's for_each closure: gp_save(..).unwrap_or(()), which asserts that
\* the metas agree, creates the three files and writes them in turn, and
\* returns at the first step that fails.
PipeSave ==
    /\ dpc = "save"
    /\ Stage("Delivered")
    /\ IF Unwrap(Unwrap(cur).analyzed_data).meta = Unwrap(Unwrap(cur).cape_parts).meta
       THEN /\ \E fails \in {"create", "ens", "mrg", "hm", "none"} :
              \E merged \in merge(Unwrap(Unwrap(cur).analyzed_data)) :
                 LET n == CASE fails = "create" -> 0 [] fails = "ens" -> 1
                            [] fails = "mrg" -> 2 [] OTHER -> 3
                 IN  /\ out' = out \o
                           [k \in 1..n |->
                               [msg |-> Len(trail),
                                what |-> <<"ens", "mrg", "hm">>[k],
                                ok |-> fails # <<"ens", "mrg", "hm">>[k]]]
                     /\ cur' = Some([Unwrap(cur) EXCEPT
                            !.merged = IF n >= 2 THEN Some(merged) ELSE None,
                            !.wrote = {<<"ens", "mrg", "hm">>[k] : k \in 1..n}])
            /\ dpc' = "next"
       ELSE /\ dpc' = "panicked"
            /\ UNCHANGED <<out, cur>>
    /\ UNCHANGED <<scenario, mergeVars, loadVars, driver, reported>>

NextPipe ==
    \/ PipeLaunch
    \/ PipeNext
    \/ PipePayload
    \/ PipeParse
    \/ PipeAnalyze
    \/ PipeMerge
    \/ PipePlotEns
    \/ PipePlotMrg
    \/ PipeSave

SpecPipe == InitPipe /\ [][NextPipe]_vars

\* ------------------------------------------------------------------ a loader or a driver

\* Either a loader with the holder of its Receiver, or a call of a driver.
InitLoadPipe == InitLoad \/ InitPipe

NextLoadPipe ==
    \/ scenario = "load" /\ NextLoad
    \/ scenario = "pipe" /\ NextPipe

SpecLoadPipe == InitLoadPipe /\ [][NextLoadPipe]_vars

\* ------------------------------------------------------------------ claims about merge

\* The input's elements in iteration order, and those merge can use.
InputElems == Flatten(ens.data)
Usable(e) == IsSome(valid_time(e)) /\ IsSome(lead_time(e))
MergedElems == result.data.data

\* C1: the series merge returns is sorted strictly ascending by valid time
\* and holds at most one entry per distinct valid time of the input.
C1_MergeSortedUnique ==
    mpc = "merged" =>
        /\ \A i \in 1..(Len(MergedElems) - 1) :
               OptLT(valid_time(MergedElems[i]), valid_time(MergedElems[i + 1]))
        /\ \A i, j \in 1..Len(MergedElems) :
               valid_time(MergedElems[i]) = valid_time(MergedElems[j]) => i = j
        /\ \A i \in 1..Len(MergedElems) :
               valid_time(MergedElems[i]) \in
                   {valid_time(InputElems[k]) : k \in 1..Len(InputElems)}

\* Two valid times came out, which the input held in descending order and
\* one of them twice.
C1_Witness ==
    /\ mpc = "merged"
    /\ Len(MergedElems) = 2
    /\ Len(InputElems) = 3
    /\ Usable(InputElems[1]) /\ Usable(InputElems[2]) /\ Usable(InputElems[3])
    /\ OptLT(valid_time(InputElems[2]), valid_time(InputElems[1]))

\* Scenario A: run1 {T0 lead 0, T1 lead 6h}, run2 {T1 lead 0}; a lead of 6
\* hours is the lead time 1 here.
ScenarioA ==
    EnsembleList(TestMeta,
        << <<1, TimeSeries(<< Element(Some(1), Some(0), 1),
                              Element(Some(2), Some(1), 2) >>)>>,
           <<2, TimeSeries(<< Element(Some(2), Some(0), 3) >>)>> >>)

\* C2: the entry that survives merge for a valid time has a lead time no
\* greater than that of every usable input element with that valid time, and
\* of those with the same lead time it is the first in iteration order;
\* Scenario A merges to [T0 of run1, T1 of run2].
C2_MergeShortestLeadFirstSeen ==
    mpc = "merged" =>
        /\ \A i \in 1..Len(MergedElems) : \A k \in 1..Len(InputElems) :
               LET x == MergedElems[i]
                   c == InputElems[k]
               IN  (Usable(c) /\ valid_time(c) = valid_time(x)) =>
                       /\ Unwrap(lead_time(x)) <= Unwrap(lead_time(c))
                       /\ lead_time(x) = lead_time(c) => x.tag <= c.tag
        /\ \A i \in 1..Len(MergedElems) : MergedElems[i] \in Range(InputElems)
        /\ ens = ScenarioA =>
               MergedElems = << Element(Some(1), Some(0), 1),
                                Element(Some(2), Some(0), 3) >>

\* A valid time with two candidates of the same, minimal, lead time, met
\* after a candidate of a longer lead time.
C2_Witness ==
    /\ mpc = "merged"
    /\ Len(InputElems) = 3
    /\ \A k \in 1..3 : valid_time(InputElems[k]) = Some(2)
    /\ lead_time(InputElems[1]) = Some(1)
    /\ lead_time(InputElems[2]) = Some(0)
    /\ lead_time(InputElems[3]) = Some(0)
    /\ MergedElems = << InputElems[2] >>

\* Scenario A ran to its end.
ScenarioAMerged == mpc = "merged" /\ ens = ScenarioA

\* C10 as stated: merging one run whose elements have pairwise distinct
\* valid times returns the same elements, none added, dropped or replaced.
SingleRunDistinct ==
    /\ Len(ens.data) = 1
    /\ \A i, j \in 1..Len(InputElems) :
           valid_time(InputElems[i]) = valid_time(InputElems[j]) => i = j

SameElements ==
    /\ Len(MergedElems) = Len(InputElems)
    /\ Range(MergedElems) = Range(InputElems)

Increasing(n, m) ==
    {g \in [1..n -> 1..m] : \A i, j \in 1..n : i < j => g[i] < g[j]}

\* The elements of s that the func under test keeps, mapped, in their order.
KeptOf(s) ==
    LET Keep(x) == x \in kept
        sel == SelectSeq(s, Keep)
    IN  [j \in 1..Len(sel) |-> Mapped(sel[j])]

\* The runs with an element the func under test keeps.
SurvivingRuns ==
    {r \in 1..Len(ens.data) :
        \E i \in 1..Len(ens.data[r][2].data) : ens.data[r][2].data[i] \in kept}

\* C8: every run filter_map_inner returns has at least one element; the runs
\* returned are the runs with an element func keeps, in their input order,
\* each with its own init time and its kept elements in their input order.
C8_FilterMapInnerNoEmptyRun ==
    mpc = "filter_map_inner" =>
        /\ \A i \in 1..Len(result.data) : Len(result.data[i][2].data) >= 1
        /\ Len(result.data) = Cardinality(SurvivingRuns)
        /\ \E g \in Increasing(Len(result.data), Len(ens.data)) :
               \A i \in 1..Len(result.data) :
                   /\ g[i] \in SurvivingRuns
                   /\ result.data[i][1] = ens.data[g[i]][1]
                   /\ result.data[i][2].data = KeptOf(ens.data[g[i]][2].data)

\* Of two runs the first lost all its elements and is gone, the second lost
\* the first of its two and is still there.
C8_Witness ==
    /\ mpc = "filter_map_inner"
    /\ Len(ens.data) = 2
    /\ Len(ens.data[1][2].data) = 1
    /\ Len(ens.data[2][2].data) = 2
    /\ kept = {ens.data[2][2].data[2]}
    /\ Len(result.data) = 1
    /\ result.data[1][1] = 2

\* The runs whose payload the func under test keeps.
KeptRuns == {r \in 1..Len(ens.data) : ens.data[r][2] \in kept}

\* C9: EnsembleList::filter_map returns exactly the (init time, f(payload))
\* pairs of the runs for which f returned a value, in their input order.
C9_FilterMapSubsequence ==
    mpc = "filter_map" =>
        /\ Len(result.data) = Cardinality(KeptRuns)
        /\ \E g \in Increasing(Len(result.data), Len(ens.data)) :
               \A i \in 1..Len(result.data) :
                   /\ g[i] \in KeptRuns
                   /\ result.data[i] =
                          <<ens.data[g[i]][1], Mapped(ens.data[g[i]][2])>>

\* Of two runs with different payloads the first is dropped, the second kept.
C9_Witness ==
    /\ mpc = "filter_map"
    /\ Len(ens.data) = 2
    /\ ens.data[1][2] # ens.data[2][2]
    /\ kept = {ens.data[2][2]}
    /\ Len(result.data) = 1
    /\ result.data[1][1] = 2

\* ------------------------------------------------------------------ claims about the loaders

\* A message is emitted when the thread hands it to sender.send: sent is the
\* sequence of these.  While the Receiver is not dropped the queue holds them.
IsError(msg) == msg.tag = "BufkitDataError"
IsStringData(msg) == msg.tag = "StringData"

Delivered == rx = "held" => chan = sent

SomeFileFails ==
    \E k \in 1..Len(loader.files) : loader.files[k].kind # "good"

\* C4: a call of load_from_files in which a file cannot be read or yields no
\* init time emits one error message and no StringData, wherever the file is
\* in the list; with every file good it emits one StringData holding one
\* (init time, text) pair per file, in the order of the list.
C4_FilesAllOrNothing ==
    (scenario = "load" /\ loader.kind = "files") =>
        /\ Len(sent) <= 1
        /\ Delivered
        /\ ThreadOver =>
               /\ Len(sent) = 1
               /\ SomeFileFails => IsError(sent[1])
               /\ ~SomeFileFails =>
                      /\ IsStringData(sent[1])
                      /\ sent[1].meta = MetaData(loader.site, loader.model,
                                                 loader.start, loader.start,
                                                 loader.end)
                      /\ sent[1].data =
                             [k \in 1..Len(loader.files) |->
                                 <<Unwrap(loader.files[k].init), k>>]

\* Three files, the second unreadable between two good ones: one error.
C4_Witness ==
    /\ scenario = "load" /\ loader.kind = "files"
    /\ lpc = "done"
    /\ Len(loader.files) = 3
    /\ loader.files[1].kind = "good"
    /\ loader.files[2].kind = "unreadable"
    /\ loader.files[3].kind = "good"
    /\ sent = << ErrorMsg("Io") >>
    /\ chan = sent

AllCallsOk == \A i \in 1..Len(calls) : calls[i].ok

\* C5: in load_for_site_and_date_and_time a failed step (connect, site
\* lookup, retrieval) is the last step made and is answered by one error
\* message; the call emits one message in all, a StringData when the three
\* steps succeed and an error otherwise.
C5_RangeShortCircuit ==
    (scenario = "load" /\ loader.kind = "range") =>
        /\ Len(sent) <= 1
        /\ Delivered
        /\ \A i \in 1..Len(calls) :
               ~calls[i].ok =>
                   /\ i = Len(calls)
                   /\ ThreadOver
                   /\ Len(sent) = 1 /\ IsError(sent[1])
        /\ ThreadOver =>
               /\ Len(sent) = 1
               /\ AllCallsOk =>
                      /\ IsStringData(sent[1])
                      /\ [i \in 1..Len(calls) |-> calls[i].op] =
                             << "connect", "lookup", "retrieve" >>

\* The site lookup failed after a good connect: no retrieval, one error.
C5_Witness ==
    /\ scenario = "load" /\ loader.kind = "range"
    /\ lpc = "done"
    /\ Len(calls) = 2
    /\ calls[1].ok /\ ~calls[2].ok
    /\ sent = << ErrorMsg("NotInIndex") >>
    /\ chan = sent

\* The (site, model index) pairs of the archive, in the order the two nested
\* for of the fan-out meet them.
ArchivePairs ==
    Concat([m \in 1..Len(Models) |->
        LET ss == SitesInOrder(loader.archive[m])
        IN  [j \in 1..Len(ss) |-> <<ss[j], m>>]])

RetrieveCalls ==
    LET IsRetrieve(c) == c.op = "retrieve"
    IN  SelectSeq(calls, IsRetrieve)

\* One message per pair of the archive, an error for a pair whose retrieval
\* failed and the pair's StringData otherwise.
OneMessagePerPair ==
    /\ [i \in 1..Len(RetrieveCalls) |-> RetrieveCalls[i].arg] = ArchivePairs
    /\ Len(sent) = Len(ArchivePairs)
    /\ \A i \in 1..Len(ArchivePairs) :
           IF RetrieveCalls[i].ok
           THEN /\ IsStringData(sent[i])
                /\ sent[i].meta.site = ArchivePairs[i][1]
                /\ sent[i].meta.model = Models[ArchivePairs[i][2]]
           ELSE IsError(sent[i])

SetupCall(c) == c.op \in {"connect", "sites"}

C7_EmptyWindowIsData ==
    (scenario = "load" /\ loader.kind = "range" /\ Len(calls) = 3
        /\ calls[3].ok /\ calls[3].arg.texts = << >>)
    => /\ Len(sent) = 1
       /\ IsStringData(sent[1])
       /\ sent[1].data = << >>
       /\ sent[1].meta.site = loader.site
       /\ sent[1].meta.model = loader.model

C7_Witness ==
    /\ scenario = "load" /\ loader.kind = "range"
    /\ lpc = "done"
    /\ Len(calls) = 3
    /\ calls[3].ok /\ calls[3].arg.texts = << >>
    /\ chan = sent
    /\ Len(chan) = 1
    /\ IsStringData(chan[1])

\* ------------------------------------------------------------------ claims about the driver

PathDelivered == <<"Received", "Parsed&NonEmpty", "Analyzed", "Merged", "Delivered">>
PathDropped == <<"Received", "ParseEmpty", "Dropped">>
PathReported == <<"Received", "ErrorPayload", "Reported&Dropped">>
Paths == {PathDelivered, PathDropped, PathReported}

IsPrefix(s, t) == Len(s) <= Len(t) /\ s = SubSeq(t, 1, Len(s))

\* The item is in the hands of a closure of the chain.
InHand == dpc \in {"payload", "parse", "analyze", "merge", "plot_ens", "plot_mrg", "save"}

\* Read off the message alone: one of its blocks is well formed and holds a
\* sounding whose valid time lies inside the window of the message.
HasUsableRun(msg) ==
    /\ IsStringData(msg)
    /\ \E r \in DOMAIN msg.data :
          /\ msg.data[r][2].kind = "bufkit"
          /\ \E k \in DOMAIN msg.data[r][2].snds :
                LET vt == msg.data[r][2].snds[k].valid_time
                IN  /\ vt # None
                    /\ msg.meta.start <= vt[1]
                    /\ vt[1] <= msg.meta.end

WritesOf(i) == {k \in DOMAIN out : out[k].msg = i}

WhatRank(what) == CASE what = "ens" -> 1 [] what = "mrg" -> 2 [] OTHER -> 3

\* The closures are done with item i.
LetGo(i) == i < Len(trail) \/ ~InHand

\* C11: the outputs are written one item at a time in the order the items
\* were taken: every output of an earlier item precedes every output of a
\* later one, within an item the ensemble output precedes the merged output
\* (and the heat map file), and plot_all writes, for each item it delivered,
\* the ensemble output and right after it the merged output of that item;
\* save_all writes them in that order up to the first write that fails.
C11_OneItemAtATime ==
    scenario = "pipe" =>
        /\ \A j, k \in DOMAIN out :
              j < k => \/ out[j].msg < out[k].msg
                       \/ /\ out[j].msg = out[k].msg
                          /\ WhatRank(out[j].what) < WhatRank(out[k].what)
        /\ \A i \in DOMAIN trail :
              (trail[i] = PathDelivered /\ LetGo(i)) =>
                 IF driver = "plot_all"
                 THEN \E k \in DOMAIN out :
                         /\ k + 1 \in DOMAIN out
                         /\ out[k].msg = i /\ out[k].what = "ens"
                         /\ out[k + 1].msg = i /\ out[k + 1].what = "mrg"
                 ELSE \A k \in WritesOf(i) :
                         /\ out[k].what # "ens" => out[k - 1].msg = i /\ out[k - 1].ok
                         /\ out[k].what = "ens" => (k - 1 \in DOMAIN out => out[k - 1].msg < i)

\* plot_all returned after it delivered two items and wrote the two outputs
\* of each.
C11_Witness ==
    /\ scenario = "pipe"
    /\ driver = "plot_all"
    /\ dpc = "done"
    /\ \E i, j \in DOMAIN trail :
          /\ i < j
          /\ trail[i] = PathDelivered /\ trail[j] = PathDelivered
          /\ Cardinality(WritesOf(i)) = 2 /\ Cardinality(WritesOf(j)) = 2
          /\ \A k \in WritesOf(i) \cup WritesOf(j) : out[k].ok

\* ------------------------------------------------------------------ claims about the channel

\* What was sent is what was received followed by what waits in the queue.
FifoExactlyOnce == recvd \o chan = sent

\* C12: with a consumer that keeps receiving, a loader's sends never wait for
\* the consumer, what the consumer received followed by what is queued is at
\* every moment exactly what was sent, in send order, and in the end the
\* loader's thread is over, the consumer has received every message sent and
\* has seen the channel disconnected.
C12_ChannelDrainsAndCloses ==
    /\ [](FifoExactlyOnce)
    /\ [](~ThreadOver => ENABLED LoaderStep)
    /\ <>[](rx = "finished" /\ recvd = sent /\ lpc = "done")

\* The fan-out's consumer saw the channel closed after it received several
\* messages, one of which it took while the loader was still at work on a
\* queue holding more than one message.
C12_Witness ==
    /\ scenario = "load"
    /\ loader.kind = "fanout"
    /\ rx = "finished"
    /\ Len(recvd) >= 3
    /\ recvd = sent

\* ------------------------------------------------------------------ claims about parse errors

\* The texts a retrieval answered and the message sent for them, for every
\* retrieval of an archive loader that was answered.
AnsweredRetrievals ==
    IF loader.kind = "range"
    THEN {<<calls[k].arg.texts, sent[1]>> :
             k \in {k \in DOMAIN calls : calls[k].op = "retrieve" /\ calls[k].ok}}
    ELSE {<<RetrieveCalls[k].got.texts, sent[k]>> :
             k \in {k \in DOMAIN RetrieveCalls : RetrieveCalls[k].ok}}

\* data holds, in the order of the texts, the init time and the string of
\* exactly the texts that are well formed and tell their init time.
CarriesTheGoodTexts(texts, data) ==
    /\ \A k \in DOMAIN texts :
          texts[k].kind = "good" <=>
              \E j \in DOMAIN data : data[j][2] = k /\ texts[k].init = Some(data[j][1])
    /\ \A i, j \in DOMAIN data : i < j => data[i][2] < data[j][2]
    /\ \A j \in DOMAIN data : data[j][2] \in DOMAIN texts

\* Block r of the message is well formed and holds a sounding inside the window.
UsableBlock(msg, r) ==
    /\ msg.data[r][2].kind = "bufkit"
    /\ \E k \in DOMAIN msg.data[r][2].snds :
          LET vt == msg.data[r][2].snds[k].valid_time
          IN  vt # None /\ msg.meta.start <= vt[1] /\ vt[1] <= msg.meta.end

\* C13 as stated, for load_from_files: a malformed file among the files is
\* dropped without an error message.
C13_AsStated ==
    (scenario = "load" /\ loader.kind = "files" /\ lpc = "done"
        /\ \E k \in DOMAIN calls : ~calls[k].ok /\ loader.files[calls[k].arg].kind = "malformed")
    => \A k \in DOMAIN sent : ~IsError(sent[k])

\* C13: in the two archive loaders a retrieved text that is malformed is left
\* out of the StringData of its retrieval, the well formed texts of the same
\* retrieval are carried in it in their order, and no error message is sent
\* for it; in the driver's parse step a malformed block is left out of the
\* parsed ensemble, the usable blocks of the same message are carried in it
\* with their init times in their order, and nothing is reported.
C13_MalformedRecordDropped ==
    /\ (scenario = "load" /\ loader.kind \in {"range", "fanout"}) =>
          \A p \in AnsweredRetrievals :
              /\ IsStringData(p[2])
              /\ CarriesTheGoodTexts(p[1], p[2].data)
    /\ (scenario = "pipe" /\ cur # None /\ Unwrap(cur).ens_ser_anal # None) =>
          LET msg == Unwrap(cur).msg
              parsed == Unwrap(Unwrap(cur).ens_ser_anal).data
              usable == SelectSeq([r \in DOMAIN msg.data |-> r],
                                  LAMBDA r : UsableBlock(msg, r))
          IN  /\ [i \in DOMAIN parsed |-> parsed[i][1]]
                     = [i \in DOMAIN usable |-> msg.data[usable[i]][1]]
              /\ \A i \in DOMAIN parsed :
                    \A j \in DOMAIN parsed[i][2].data :
                        parsed[i][2].data[j].tag[1] = msg.data[usable[i]][2].id
              /\ ~(\E k \in DOMAIN reported : reported[k] = Len(trail))
              /\ dpc # "panicked"

\* The range loader sent the StringData of a retrieval that answered a
\* malformed text in front of a well formed one.
C13_Witness ==
    /\ scenario = "load" /\ loader.kind = "range" /\ lpc = "done"
    /\ \E p \in AnsweredRetrievals :
          /\ Len(p[1]) = 2
          /\ p[1][1].kind = "malformed"
          /\ p[1][2].kind = "good"
          /\ Len(p[2].data) = 1

\* ------------------------------------------------------------------ more claims about merge

\* C14: merge passes over every element that lacks a valid time or a lead
\* time and goes on: no such element is ever in the pool (so the unwrap of a
\* stored lead time cannot fail) or in the series returned, every valid
\* time of a usable element is in it, an ensemble without elements merges to
\* the empty series, and so does one whose elements all lack a lead time.
C14_MergeSkipsUnusable ==
    /\ scenario = "merge" => \A vt \in DOMAIN pool : Usable(pool[vt])
    /\ mpc = "merged" =>
        /\ \A i \in DOMAIN MergedElems : Usable(MergedElems[i])
        /\ {valid_time(MergedElems[i]) : i \in DOMAIN MergedElems}
               = {valid_time(InputElems[k]) :
                     k \in {k \in DOMAIN InputElems : Usable(InputElems[k])}}
        /\ InputElems = << >> => MergedElems = << >>
        /\ (\A k \in DOMAIN InputElems : lead_time(InputElems[k]) = None)
               => MergedElems = << >>
        /\ result.meta = ens.meta

\* Two runs whose three elements all have a valid time and no lead time
\* merged to the empty series.
C14_Witness ==
    /\ mpc = "merged"
    /\ Len(ens.data) = 2
    /\ Len(InputElems) = 3
    /\ \A k \in DOMAIN InputElems :
          IsSome(valid_time(InputElems[k])) /\ lead_time(InputElems[k]) = None
    /\ MergedElems = << >>

\* ------------------------------------------------------------------ claims about a loader left alone

\* C15 as stated: whatever the holder of the Receiver does, dropping it before
\* the loader sends included, the loader's thread is never faulted: it goes on
\* to its end, where it has sent its StringData or a single error.
C15_AsStated ==
    scenario = "load" =>
        /\ lpc # "panicked"
        /\ lpc = "done" => sent # << >>

\* C16: what merge returns is a function of its input alone: the pool after
\* the two loops is the one the input's elements give when visited in order,
\* and whichever order the pool yields its values in, sorting them gives the
\* very series that was returned.
C16_MergeDeterministic ==
    mpc = "merged" =>
        /\ pool = PoolAfter(InputElems)
        /\ \A order \in IterOrders(pool) :
               MergedSeries(ens.meta, TimeSeries(sort_by_key(order))) = result
        /\ merge(ens) = {result}

\* A merge whose pool held two valid times, so that it could yield its
\* values in two orders.
C16_Witness ==
    /\ mpc = "merged"
    /\ Cardinality(DOMAIN pool) = 2
    /\ Cardinality(IterOrders(pool)) = 2
    /\ Len(MergedElems) = 2

\* The (valid time, lead time) pairs of a merged series, in its order.
TimePairs(merged) ==
    [i \in DOMAIN merged.data.data |->
        <<valid_time(merged.data.data[i]), lead_time(merged.data.data[i])>>]

\* The orders the runs of the ensemble can be put in.
RunOrders ==
    {perm \in [DOMAIN ens.data -> DOMAIN ens.data] :
        \A i, j \in DOMAIN ens.data : perm[i] = perm[j] => i = j}

\* The ensemble with its runs in the order perm.
Permuted(perm) == EnsembleList(ens.meta, [i \in DOMAIN ens.data |-> ens.data[perm[i]]])

\* C17: in whatever order the runs of the ensemble are put, merge returns the
\* same sequence of (valid time, lead time) pairs as for the order given, and
\* every element it then returns is an element of the input.
C17_MergeRunOrderFree ==
    mpc = "merged" =>
        \A perm \in RunOrders : \A other \in merge(Permuted(perm)) :
            /\ TimePairs(other) = TimePairs(result)
            /\ Range(other.data.data) \subseteq Range(InputElems)

\* Two runs merged, the first holding the longer lead time for a valid time
\* both have, and with the runs swapped merge retains another element for a
\* valid time on which the runs tie.
C17_Witness ==
    /\ mpc = "merged"
    /\ Len(ens.data) = 2
    /\ \E i \in DOMAIN ens.data[1][2].data, j \in DOMAIN ens.data[2][2].data :
          LET a == ens.data[1][2].data[i]
              b == ens.data[2][2].data[j]
          IN  /\ Usable(a) /\ Usable(b)
              /\ valid_time(a) = valid_time(b)
              /\ Unwrap(lead_time(b)) < Unwrap(lead_time(a))
    /\ \E other \in merge(Permuted([i \in DOMAIN ens.data |-> 3 - i])) :
          other.data.data # MergedElems

\* ------------------------------------------------------------------ claims about the window

\* t, an Option, is a time inside the window of the meta, its ends included.
InsideWindow(t, meta) == t # None /\ meta.start <= t[1] /\ t[1] <= meta.end

\* The rows the writers that were called for the item in hand were given.
RowsGiven ==
    LET item == Unwrap(cur)
    IN  (IF "ens" \in item.wrote THEN EnsembleRows(Unwrap(item.analyzed_data)) ELSE << >>)
        \o (IF "mrg" \in item.wrote THEN MergedRows(Unwrap(item.merged)) ELSE << >>)
        \o (IF "hm" \in item.wrote THEN HeatMapRows(Unwrap(item.cape_parts)) ELSE << >>)

\* C18: for every message that comes to the parse step, parse_sounding
\* answers for a block either nothing or a series that is not empty, and the
\* series holds exactly the soundings of the block whose valid time t has
\* meta.start <= t <= meta.end, those at the two ends of the window included;
\* every element of the parsed ensemble that goes on to analysis has such a
\* valid time, and so has every row the writers of the ensemble, the merged
\* and the heat map output are given.
C18_WindowInclusive ==
    (scenario = "pipe" /\ cur # None /\ IsStringData(Unwrap(cur).msg)) =>
        LET msg == Unwrap(cur).msg
            parse == parse_sounding(msg.meta.start, msg.meta.end)
        IN  /\ dpc = "parse" =>
                  /\ \A b \in DOMAIN parse : parse[b] # Some(TimeSeries(<< >>))
                  /\ \A r \in DOMAIN msg.data :
                        LET block == msg.data[r][2]
                            parsed == parse[block]
                            inside == {k \in DOMAIN block.snds :
                                          InsideWindow(block.snds[k].valid_time, msg.meta)}
                        IN  IF parsed = None
                            THEN block.kind = "malformed" \/ inside = {}
                            ELSE {a.tag[2] : a \in Range(Unwrap(parsed).data)} = inside
            /\ dpc = "analyze" =>
                  \A a \in Range(Flatten(Unwrap(Unwrap(cur).ens_ser_anal).data)) :
                      InsideWindow(valid_time(a), msg.meta)
            /\ Unwrap(cur).wrote # {} =>
                  LET rows == RowsGiven
                  IN  \A k \in DOMAIN rows : InsideWindow(rows[k].valid_time, msg.meta)

\* An item was delivered whose blocks held soundings at the start and at the
\* end of the window and outside it, and rows for both ends were written.
C18_Witness ==
    /\ scenario = "pipe" /\ cur # None /\ IsStringData(Unwrap(cur).msg)
    /\ dpc = "next"
    /\ "mrg" \in Unwrap(cur).wrote
    /\ LET msg == Unwrap(cur).msg
       IN  /\ \E r \in DOMAIN msg.data : \E k \in DOMAIN msg.data[r][2].snds :
                 msg.data[r][2].snds[k].valid_time = Some(msg.meta.end + 1)
           /\ \E r \in DOMAIN msg.data : \E k \in DOMAIN msg.data[r][2].snds :
                 msg.data[r][2].snds[k].valid_time = Some(msg.meta.start - 1)
           /\ {RowsGiven[k].valid_time : k \in DOMAIN RowsGiven}
                  = {Some(msg.meta.start), Some(msg.meta.end)}

\* ------------------------------------------------------------------ claims about the window of a loader

\* The documented horizons, in days.
Horizon(model) ==
    CASE model = "GFS" -> 7 [] model = "NAM" -> 4 [] model = "NAM4KM" -> 3

\* The reference time of the archive loader at work: the time it was given,
\* or the clock it read after it connected.
Reference == IF loader.kind = "range" THEN loader.time ELSE locals.now

\* C19: every StringData a range loader or a fan-out sends has start =
\* reference - days_back, now = reference and end = reference + horizon of
\* its model (7 days for GFS, 4 for NAM, 3 for NAM4KM), so that end - start
\* = days_back + horizon.
C19_WindowArithmetic ==
    (scenario = "load" /\ loader.kind \in {"range", "fanout"}) =>
        \A k \in DOMAIN sent :
            IsStringData(sent[k]) =>
                LET meta == sent[k].meta
                IN  /\ meta.now = Reference
                    /\ meta.start = Reference - loader.days_back
                    /\ meta.end = Reference + Horizon(meta.model)
                    /\ meta.end - meta.start = loader.days_back + Horizon(meta.model)
                    /\ loader.kind = "range" => meta.model = loader.model

\* A fan-out sent a StringData for each of the three models.
C19_Witness ==
    /\ scenario = "load" /\ loader.kind = "fanout" /\ lpc = "done"
    /\ \A model \in {"GFS", "NAM", "NAM4KM"} :
          \E k \in DOMAIN sent : IsStringData(sent[k]) /\ sent[k].meta.model = model

\* ------------------------------------------------------------------ claims about the meta data

\* The five fields of two MetaData agree.
SameMeta(a, b) ==
    /\ a.site = b.site /\ a.model = b.model
    /\ a.start = b.start /\ a.now = b.now /\ a.end = b.end

\* What each transform returned carries the MetaData of what it was given.
MetaKept ==
    /\ mpc \in {"filter_map", "filter_map_inner", "merged"} => SameMeta(result.meta, ens.meta)
    /\ mpc = "merged_filter_map" =>
          /\ SameMeta(derived.meta, result.meta)
          /\ SameMeta(result.meta, ens.meta)

\* A step of a transform that borrows its input leaves the input as it was.
InputKept ==
    /\ (mpc = "idle" /\ mpc' \in {"filter_map", "filter_map_inner"}) => ens' = ens
    /\ (mpc = "merged" /\ mpc' = "merged_filter_map") => result' = result

\* C20: the series EnsembleList::filter_map, EnsembleSeries::filter_map_inner,
\* merge and MergedSeries::filter_map return has the site, model, start, now
\* and end of the series given, and the three filter maps, which borrow
\* their input, leave it unmodified.
C20_MetaDataKept == [](MetaKept) /\ [][InputKept]_vars

\* MergedSeries::filter_map returned a shorter series than the merged series
\* of two elements it was given.
C20_Witness ==
    /\ mpc = "merged_filter_map"
    /\ Len(result.data.data) = 2
    /\ Len(derived.data.data) = 1
    /\ derived.meta = TestMeta

\* ------------------------------------------------------------------ merge: complete, nothing added

\* The valid times of the first n elements of the input that have both a
\* valid time and a lead time.
UsableTimes(n) ==
    {Unwrap(valid_time(InputElems[k])) :
        k \in {k \in 1..n : Usable(InputElems[k])}}

\* C21: merge is complete and adds nothing.  The series returned holds
\* exactly one entry for every valid time of which the input holds an
\* element with both a valid time and a lead time, and no other entry; every
\* entry is, field for field, one of the input's elements.  While the loop
\* runs the pool holds, under each valid time of a usable element visited so
\* far and under no other key, one of the elements visited so far that has
\* that valid time.
C21_MergeCompleteAddsNothing ==
    /\ (scenario = "merge" /\ mpc = "loop") =>
          /\ DOMAIN pool = UsableTimes(pos)
          /\ \A vt \in DOMAIN pool :
                \E k \in 1..pos :
                    pool[vt] = InputElems[k] /\ valid_time(InputElems[k]) = Some(vt)
    /\ mpc = "merged" =>
          /\ \A vt \in ValidTimes :
                Cardinality({i \in DOMAIN MergedElems :
                                valid_time(MergedElems[i]) = Some(vt)})
                    = IF vt \in UsableTimes(Len(InputElems)) THEN 1 ELSE 0
          /\ Len(MergedElems) = Cardinality(UsableTimes(Len(InputElems)))
          /\ \A i \in DOMAIN MergedElems :
                \E k \in DOMAIN InputElems : MergedElems[i] = InputElems[k]

\* Two runs merged: the first holds a valid time with a long lead, the second
\* the same valid time with a shorter lead and another valid time without a
\* lead time.  One entry came out, the second run's usable element.
C21_Witness ==
    /\ mpc = "merged"
    /\ Len(ens.data) = 2
    /\ Len(InputElems) = 3
    /\ valid_time(InputElems[1]) = Some(1) /\ lead_time(InputElems[1]) = Some(1)
    /\ valid_time(InputElems[2]) = Some(1) /\ lead_time(InputElems[2]) = Some(0)
    /\ valid_time(InputElems[3]) = Some(2) /\ lead_time(InputElems[3]) = None
    /\ MergedElems = << InputElems[2] >>

\* ------------------------------------------------------------------ the assertions of the output step

\* The item in hand has come to gp_plot_ens, gp_plot_mrg or gp_save.
AtOutput == cur # None /\ dpc \in {"plot_ens", "plot_mrg", "save"}

\* C22: the assert_eq! on the metas in gp_plot_mrg and in gp_save never
\* fails.  For every item that comes to the output step, the MetaData of the
\* analyzed ensemble, that of every series merge can make of it and that of
\* the merged cape partition series are all the MetaData the message came
\* with, as are those of the parsed ensemble and of its merged series; the
\* driver is never stopped by an assertion.
C22_MetaAssertionsHold ==
    scenario = "pipe" =>
        /\ dpc # "panicked"
        /\ AtOutput =>
              LET item == Unwrap(cur)
                  meta == item.msg.meta
              IN  /\ Unwrap(item.ens_ser_anal).meta = meta
                  /\ Unwrap(item.analyzed_data).meta = meta
                  /\ Unwrap(item.merged_ser_anal).meta = meta
                  /\ Unwrap(item.cape_parts).meta = meta
                  /\ \A mg \in merge(Unwrap(item.analyzed_data)) :
                        mg.meta = Unwrap(item.cape_parts).meta
        /\ (cur # None /\ Unwrap(cur).merged # None) =>
              Unwrap(Unwrap(cur).merged).meta = Unwrap(Unwrap(cur).cape_parts).meta

\* plot_all was given a message of the other site after one of the first;
\* gp_plot_mrg went past its assertion with a merged series and a cape
\* partition series that both hold data.
C22_Witness ==
    /\ driver = "plot_all"
    /\ dpc = "next"
    /\ Len(trail) = 2
    /\ trail[1] = PathDelivered
    /\ cur # None
    /\ IsStringData(Unwrap(cur).msg)
    /\ Unwrap(cur).msg.meta = OtherMeta
    /\ "mrg" \in Unwrap(cur).wrote
    /\ Unwrap(Unwrap(cur).merged).meta = OtherMeta
    /\ Unwrap(Unwrap(cur).merged).data.data # << >>
    /\ Unwrap(Unwrap(cur).cape_parts).data.data # << >>

\* ------------------------------------------------------------------ merge: the unwrap on a collision

\* The element the loop of merge visits next meets an entry of the pool.
Collision ==
    /\ mpc = "loop"
    /\ pos < Len(InputElems)
    /\ Usable(InputElems[pos + 1])
    /\ Unwrap(valid_time(InputElems[pos + 1])) \in DOMAIN pool

\* C23: the unwrap of the stored entry's lead time never fails.  In every
\* state of the loop of merge each entry of the pool is stored under its own
\* valid time and has a lead time; so whenever the element visited next
\* collides with an entry, that entry's lead time is there, and merge is
\* never stopped by a panic.
C23_StoredLeadPresent ==
    scenario = "merge" =>
        /\ mpc # "panicked"
        /\ \A vt \in DOMAIN pool :
              /\ valid_time(pool[vt]) = Some(vt)
              /\ IsSome(lead_time(pool[vt]))
        /\ Collision =>
              /\ ~StoredLeadMissing(pool, InputElems[pos + 1])
              /\ Unwrap(lead_time(pool[Unwrap(valid_time(InputElems[pos + 1]))]))
                     \in LeadTimes

\* The loop passed an element with a valid time and no lead time, stored the
\* next one, of the same valid time, and is about to compare a third of that
\* valid time with it.
C23_Witness ==
    /\ Collision
    /\ pos = 2
    /\ valid_time(InputElems[1]) = Some(1) /\ lead_time(InputElems[1]) = None
    /\ valid_time(InputElems[2]) = Some(1) /\ lead_time(InputElems[2]) = Some(1)
    /\ valid_time(InputElems[3]) = Some(1) /\ lead_time(InputElems[3]) = Some(0)
    /\ pool[1] = InputElems[2]

\* ------------------------------------------------------------------ merging and analysis commute

\* What tells the entries of a merged series apart: the valid time, the lead
\* time and the place in the message (run and position) of each, in order.
Entries(mg) ==
    [i \in DOMAIN mg.data.data |->
        << valid_time(mg.data.data[i]), lead_time(mg.data.data[i]),
           mg.data.data[i].tag >>]

\* impl ValidTime for Vec<T>: the valid time of the first item, if any.
vec_valid_time(v) == IF v = << >> THEN None ELSE valid_time(v[1])

\* The valid times of the entries of the merged cape partition series.
CapeTimes(cape_parts) ==
    {vec_valid_time(cape_parts.data.data[i]) : i \in DOMAIN cape_parts.data.data}

\* C24: in plot_all and save_all merging commutes with analysis.  Every
\* series merge can make of the analyzed ensemble has the same valid times in
\* the same order as the merged series of the parsed ensemble, each with the
\* same lead time and from the same run and place; the series the output
\* step did merge is such a one; and every valid time of the merged cape
\* partition series is a valid time of the merged analyzed series.
C24_MergeCommutesWithAnalysis ==
    (scenario = "pipe" /\ cur # None) =>
        LET item == Unwrap(cur)
        IN  /\ dpc \in {"plot_ens", "save"} =>
                  \A mg \in merge(Unwrap(item.analyzed_data)) :
                      /\ Entries(mg) = Entries(Unwrap(item.merged_ser_anal))
                      /\ CapeTimes(Unwrap(item.cape_parts))
                             \subseteq {e[1] : e \in Range(Entries(mg))}
            /\ item.merged # None =>
                  /\ Entries(Unwrap(item.merged))
                         = Entries(Unwrap(item.merged_ser_anal))
                  /\ CapeTimes(Unwrap(item.cape_parts))
                         \subseteq {e[1] : e \in Range(Entries(Unwrap(item.merged)))}

\* save_all wrote the merged series of a message of two runs that meet at two
\* valid times: one entry was taken from each run, and the cape partition
\* series holds both valid times.
C24_Witness ==
    /\ driver = "save_all"
    /\ dpc = "next"
    /\ cur # None
    /\ Unwrap(cur).merged # None
    /\ LET es == Entries(Unwrap(Unwrap(cur).merged))
       IN  /\ Len(es) = 2
           /\ es[1][3][1] # es[2][3][1]
           /\ es = Entries(Unwrap(Unwrap(cur).merged_ser_anal))
    /\ Cardinality(CapeTimes(Unwrap(Unwrap(cur).cape_parts))) = 2
    /\ Len(Flatten(Unwrap(Unwrap(cur).ens_ser_anal).data)) = 4

====
